---- MODULE Spec2Model ----
(***************************************************************************)
(* The real-time notification path of the ticket system: the connection    *)
(* registry (app/websocket_manager.py), the WebSocket endpoint that feeds  *)
(* it (routers/websocket_router.py) and the reply / status handlers that   *)
(* broadcast through it (routers/ticket_router.py); the ticket store       *)
(* (operations/ticket_operations.py), the role gates (app/dependencies.py) *)
(* and the signup handler (routers/auth_router.py).                        *)
(*                                                                         *)
(* Every await is a suspension point: other tasks run between the start of *)
(* ws.accept() or ws.send_text() and its completion.                       *)
(***************************************************************************)
EXTENDS Integers, Sequences, FiniteSets, TLC

\* ------------------------------------------------------------------ bounds
\* Longest room (list of a ticket id) the model builds.
MaxRoom == 2
\* Number of reply / status requests (each calls broadcast once).
MaxRequests == 2

\* Most rows of the tickets table / of the replies table the model builds.
MaxTickets == 2
MaxReplies == 2
\* Number of concurrent signup requests.
MaxSignups == 3
\* Number of concurrent login requests.
MaxOccur == 3
MaxLogins == 2

TicketIds == {1, 2}
\* Sockets served by the endpoint ticket_ws (one handler task each).
EndpointChannels == {"w1"}
\* Sockets handed to the manager directly, as the tests' DummyWebSocket is.
DirectChannels == {"d1", "d2"}
Channels == EndpointChannels \cup DirectChannels
Requests == 1..MaxRequests
Signups == 1..MaxSignups
Logins == 1..MaxLogins
\* The passwords of the signup and login forms.
Passwords == {"pw", "other"}
Titles == {"a", "b"}
\* The user ids handed to the operations as created_by / replied_by when
\* they are called directly: the agent's and the first user's.
Authors == {1, 2}
\* schemas.UserRole and schemas.TicketStatus
UserRole == {"user", "agent"}
TicketStatus == {"open", "in_review", "close"}

\* ------------------------------------------------------------------ database
VARIABLES
    db,        \* the tables: users, tickets, replies (a row's id is its index)
    jobs,      \* the Celery jobs dispatched with .delay(), in order
    http,      \* per request: the locals and the answer of its HTTP handler
    ret,       \* history: the latest direct call of a ticket operation
    su,        \* per signup request: where its handler is, and its answer
    li         \* per login request: where its handler is, and its answer

\* hash_password: the bcrypt hash of the password; verify_password holds of
\* a password and a hash exactly when the hash was made of that password.
hash_password(password) == <<"bcrypt", password>>
verify_password(plain_password, hashed_password) ==
    hashed_password = hash_password(plain_password)

\* The accounts that signed up (all with the password "pw") before any
\* handler below runs.
SeedUsers ==
    <<[email |-> "agent@x.com", role |-> "agent", hashed_password |-> hash_password("pw")],
      [email |-> "u1@x.com", role |-> "user", hashed_password |-> hash_password("pw")],
      [email |-> "u2@x.com", role |-> "user", hashed_password |-> hash_password("pw")]>>

\* ------------------------------------------------------------------ tokens
\* websocket.query_params.get("token"): None when the parameter is absent.
NoToken == "None"
Tokens == {NoToken, "", "malformed", "badsig", "expired", "nosub", "nouser", "valid"}
NoUser == "NoUser"

\* A truthiness that takes only None for falsy (as "if token is None" would).
TruthyNotNone(tok) == tok # NoToken

\* Python truthiness of the token: None and "" are falsy.
Truthy(tok) == tok # NoToken /\ tok # ""

\* jwt.decode: raises JWTError on a malformed token, a bad signature or an
\* expired token; otherwise returns the payload, whose "sub" may be missing.
JwtDecode(tok) ==
    IF tok \in {NoToken, "", "malformed", "badsig", "expired"} THEN "JWTError"
    ELSE IF tok = "nosub" THEN "None"
    ELSE IF tok = "nouser" THEN "ghost@x.com"
    ELSE IF tok = "user1" THEN "u1@x.com"
    ELSE IF tok = "user2" THEN "u2@x.com"
    ELSE "agent@x.com"

\* The users table, by email.
UserEmails == {db.users[k].email : k \in DOMAIN db.users}

\* get_current_user: the user of the token, or None (NoUser).
get_current_user(tok) ==
    LET sub == JwtDecode(tok) IN
    IF sub = "JWTError" THEN NoUser
    ELSE IF sub = "None" THEN NoUser
    ELSE IF sub \notin UserEmails THEN NoUser
    ELSE sub

validate_websocket_token(tok) == get_current_user(tok)

\* The Authorization header of an HTTP request: absent (NoToken), or a bearer
\* token. oauth2_scheme answers 401 itself when the header is absent.
BearerTokens == {NoToken, "malformed", "nouser", "valid", "user1", "user2"}

\* The row of a user that get_current_user returned: its id and its role.
UserId(u) == CHOOSE k \in DOMAIN db.users :
                 db.users[k].email = u /\ \A m \in 1..(k - 1) : db.users[m].email # u
Role(u) == db.users[UserId(u)].role

\* A require_user with a hierarchy: an agent passes as well.
require_user_or_agent(u) ==
    IF u = NoUser THEN "AttributeError" ELSE "ok"

\* require_user: "user.role != UserRole.user" on what get_current_user
\* returned; on None the attribute access raises.
require_user(u) ==
    IF u = NoUser THEN "AttributeError"
    ELSE IF Role(u) # "user" THEN "403"
    ELSE "ok"

\* require_agent
require_agent(u) ==
    IF u = NoUser THEN "AttributeError"
    ELSE IF Role(u) # "agent" THEN "403"
    ELSE "ok"

\* ------------------------------------------------------------------ state
VARIABLES
    active,    \* ConnectionManager.active: ticket id -> list of sockets
    wsState,   \* per socket: "connecting", "accepted" or "closed4401"
    hpc,       \* per endpoint socket: where its ticket_ws task is
    hticket,   \* per endpoint socket: the ticket_id path parameter (0: none)
    htoken,    \* per endpoint socket: the token query parameter
    sent,      \* per socket: the messages send_text completed, in order
    req,       \* per request: the reply / status handler and its broadcast
    last       \* history: the latest call of manager.connect / manager.disconnect

\* The variables of the store side; the actions of the registry side leave
\* them alone (stated in the next-state relations), and conversely.
wfVars == <<db, jobs, http, ret, su, li>>
regVars == <<active, wsState, hpc, hticket, htoken, sent>>

vars == <<active, wsState, hpc, hticket, htoken, sent, req, last, db, jobs, http, ret, su, li>>

\* ------------------------------------------------------------------ lists
Range(s) == {s[k] : k \in 1..Len(s)}

Count(s, x) == Cardinality({k \in 1..Len(s) : s[k] = x})

\* A removal that drops the last element, whatever it is (as list.pop() would).
ListRemovePop(s, x) == SubSeq(s, 1, Len(s) - 1)

\* A removal that drops the last occurrence of x instead of the first.
ListRemoveLast(s, x) ==
    LET k == CHOOSE j \in 1..Len(s) : s[j] = x /\ \A m \in (j + 1)..Len(s) : s[m] # x
    IN SubSeq(s, 1, k - 1) \o SubSeq(s, k + 1, Len(s))

\* list.remove(x): drops the first occurrence of x (x is in s).
ListRemove(s, x) ==
    LET k == CHOOSE j \in 1..Len(s) : s[j] = x /\ \A m \in 1..(j - 1) : s[m] # x
    IN SubSeq(s, 1, k - 1) \o SubSeq(s, k + 1, Len(s))

\* self.active.get(ticket_id, [])
Room(a, t) == IF t \in DOMAIN a THEN a[t] ELSE <<>>

\* ------------------------------------------------------------------ manager
\* connect, after accept returned: self.active.setdefault(t, []).append(ws)
Register(a, t, c) ==
    IF t \in DOMAIN a THEN [a EXCEPT ![t] = Append(@, c)]
    ELSE a @@ (t :> <<c>>)

\* A disconnect that looks the room up with setdefault instead of get: it
\* leaves an empty room behind for a ticket id that had none.
DisconnectSetdefault(a, t, c) ==
    LET b == IF t \in DOMAIN a THEN a ELSE a @@ (t :> <<>>) IN
    IF c \in Range(b[t]) THEN [b EXCEPT ![t] = ListRemove(@, c)] ELSE b

\* A disconnect that drops the socket from every room it is in.
DisconnectEverywhere(a, t, c) ==
    [u \in DOMAIN a |-> IF c \in Range(a[u]) THEN ListRemove(a[u], c) ELSE a[u]]

\* disconnect(t, ws)
Disconnect(a, t, c) ==
    IF c \in Range(Room(a, t)) THEN [a EXCEPT ![t] = ListRemove(@, c)]
    ELSE a

\* A request that has not arrived. A request that has been answered keeps its
\* answer (pc) and its kind; its locals are gone.
IdleReq == [pc |-> "idle", kind |-> "none", ticket |-> 0, i |-> 0, cur |-> "none",
            atCall |-> {}, stay |-> {}, gone |-> {}]

Answered(q, how) == [IdleReq EXCEPT !.pc = how, !.kind = q.kind]

\* The history variable: which call of the manager came last, if recorded.
Called(op, t, c) == [op |-> op, t |-> t, c |-> c]
NoCall == Called("none", 0, "none")

\* What a change of the registry to b means to the broadcasts in flight
\* (history, kept for the properties): a channel that left the room of the
\* broadcast's ticket no longer "stayed registered" since the call (stay); a
\* channel that entered it is no longer "absent since the call" (gone).
Observe(q, b) ==
    [r \in Requests |->
        IF q[r].pc = "sending"
        THEN [q[r] EXCEPT !.stay = @ \cap Range(Room(b, q[r].ticket)),
                          !.gone = @ \ Range(Room(b, q[r].ticket))]
        ELSE q[r]]

\* The locals of an HTTP handler that matter after its first suspension (the
\* requester and the e-mail of the ticket's creator, "None" if it has none),
\* the status code of its answer ("none": not answered) and, as history, how
\* far it went into the ticket tables: "none", "read" or "write".
IdleHttp == [user |-> "none", creator |-> "none", code |-> "none", store |-> "none"]

\* The history variable: the latest direct call of a ticket operation, with
\* the ticket id it was given (0: none) and what it returned.
Returned(op, t, result) == [op |-> op, t |-> t, result |-> result]
NoRet == Returned("none", 0, "none")

\* A signup request that has not arrived.
IdleSignup == [pc |-> "idle", email |-> "none", password |-> "none", role |-> "none",
               code |-> "none"]

\* The claims of the access token of a login that issued none.
NoAccessToken == [sub |-> "none", exp |-> "none"]

\* A login request that has not arrived; token holds the claims of the
\* access token it was answered with, if any.
IdleLogin == [pc |-> "idle", email |-> "none", password |-> "none", code |-> "none",
              token |-> NoAccessToken]

Init ==
    /\ active = <<>>
    /\ wsState = [c \in Channels |-> "connecting"]
    /\ hpc = [w \in EndpointChannels |-> "idle"]
    /\ hticket = [w \in EndpointChannels |-> 0]
    /\ htoken = [w \in EndpointChannels |-> NoToken]
    /\ sent = [c \in Channels |-> <<>>]
    /\ req = [r \in Requests |-> IdleReq]
    /\ last = NoCall
    /\ db = [users |-> SeedUsers, tickets |-> <<>>, replies |-> <<>>]
    /\ jobs = <<>>
    /\ http = [r \in Requests |-> IdleHttp]
    /\ ret = NoRet
    /\ su = [n \in Signups |-> IdleSignup]
    /\ li = [n \in Logins |-> IdleLogin]

\* ------------------------------------------------------------------ endpoint
\* A ticket_ws whose connect appends the socket before it awaits accept.
WsStartAppendFirst(w, t, tok) ==
    /\ hpc[w] = "idle"
    /\ Len(Room(active, t)) < MaxRoom
    /\ hpc' = [hpc EXCEPT ![w] = "accepting"]
    /\ hticket' = [hticket EXCEPT ![w] = t]
    /\ htoken' = [htoken EXCEPT ![w] = tok]
    /\ active' = Register(active, t, w)
    /\ req' = Observe(req, active')
    /\ UNCHANGED <<wsState, sent>>

\* ticket_ws up to its first suspension: the token check, then either
\* close(4401) and return, or manager.connect up to "await ws.accept()".
WsStart(w, t, tok) ==
    /\ hpc[w] = "idle"
    /\ IF ~Truthy(tok)
       THEN /\ wsState' = [wsState EXCEPT ![w] = "closed4401"]
            /\ hpc' = [hpc EXCEPT ![w] = "rejected"]
            /\ UNCHANGED <<hticket, htoken>>
       ELSE /\ hpc' = [hpc EXCEPT ![w] = "accepting"]
            /\ hticket' = [hticket EXCEPT ![w] = t]
            /\ htoken' = [htoken EXCEPT ![w] = tok]
            /\ UNCHANGED wsState
    /\ UNCHANGED <<active, sent, req>>

\* ws.accept() returns: connect appends the socket, the receive loop starts.
\* (MaxRoom caps the list in the model only; the code has no cap.)
WsAcceptOk(w) ==
    /\ hpc[w] = "accepting"
    /\ Len(Room(active, hticket[w])) < MaxRoom
    /\ wsState' = [wsState EXCEPT ![w] = "accepted"]
    /\ active' = Register(active, hticket[w], w)
    /\ req' = Observe(req, active')
    /\ hpc' = [hpc EXCEPT ![w] = "receiving"]
    /\ UNCHANGED <<hticket, htoken, sent>>

\* ws.accept() raises. WebSocketDisconnect is caught and answered by
\* manager.disconnect; any other exception leaves ticket_ws uncaught.
WsAcceptFail(w, exc) ==
    /\ hpc[w] = "accepting"
    /\ IF exc = "WebSocketDisconnect"
       THEN /\ active' = Disconnect(active, hticket[w], w)
            /\ hpc' = [hpc EXCEPT ![w] = "closed"]
       ELSE /\ hpc' = [hpc EXCEPT ![w] = "crashed"]
            /\ UNCHANGED active
    /\ req' = Observe(req, active')
    /\ UNCHANGED <<wsState, hticket, htoken, sent>>

\* One turn of "while True: await websocket.receive_text()": the text is dropped.
WsReceiveText(w) ==
    /\ hpc[w] = "receiving"
    /\ UNCHANGED <<active, wsState, hpc, hticket, htoken, sent, req>>

\* receive_text raises WebSocketDisconnect: the except clause disconnects.
WsReceiveDisconnect(w) ==
    /\ hpc[w] = "receiving"
    /\ active' = Disconnect(active, hticket[w], w)
    /\ req' = Observe(req, active')
    /\ hpc' = [hpc EXCEPT ![w] = "closed"]
    /\ UNCHANGED <<wsState, hticket, htoken, sent>>

\* receive_text raises anything else (a binary frame, a cancelled task, a
\* transport error): no except clause matches, ticket_ws ends with the error.
WsReceiveError(w) ==
    /\ hpc[w] = "receiving"
    /\ hpc' = [hpc EXCEPT ![w] = "crashed"]
    /\ UNCHANGED <<active, wsState, hticket, htoken, sent, req>>

\* ------------------------------------------------------------------ direct use
\* manager.connect(t, ws) on a DummyWebSocket: accept() sets a flag and returns
\* without suspending, then the socket is appended.
ConnectWithin(d, t, n) ==
    /\ Len(Room(active, t)) < n
    /\ wsState' = [wsState EXCEPT ![d] = "accepted"]
    /\ active' = Register(active, t, d)
    /\ req' = Observe(req, active')
    /\ UNCHANGED <<hpc, hticket, htoken, sent>>

ApiConnect(d, t) == ConnectWithin(d, t, MaxRoom)

\* manager.disconnect(t, ws)
ApiDisconnect(d, t) ==
    /\ active' = Disconnect(active, t, d)
    /\ req' = Observe(req, active')
    /\ UNCHANGED <<wsState, hpc, hticket, htoken, sent>>

\* ------------------------------------------------------------------ broadcast
\* The list iterator of "for ws in self.active.get(t, [])" after n elements:
\* the next element of the live list, if it has one.
HasNext(a, t, n) == n < Len(Room(a, t))

\* manager.broadcast(t, m) from its call to its first suspension: the list is
\* looked up once; the first send_text starts, or the loop ends at once.
BroadcastCall(r, kind, t) ==
    /\ req[r].pc = "idle"
    /\ IF r = 1 THEN TRUE ELSE req[r - 1].pc # "idle"
    /\ IF HasNext(active, t, 0)
       THEN req' = [req EXCEPT ![r] =
                [pc |-> "sending", kind |-> kind, ticket |-> t, i |-> 1,
                 cur |-> Room(active, t)[1],
                 atCall |-> Range(Room(active, t)), stay |-> Range(Room(active, t)),
                 gone |-> Channels \ Range(Room(active, t))]]
       ELSE req' = [req EXCEPT ![r] = [IdleReq EXCEPT !.pc = "returned", !.kind = kind]]
    /\ UNCHANGED <<active, wsState, hpc, hticket, htoken, sent>>

\* POST /tickets/{t}/reply, from "await manager.broadcast" on.
AddReply(r, t) == BroadcastCall(r, "reply", t)

\* PATCH /tickets/{t}/status, from "await manager.broadcast" on.
UpdateStatus(r, t) == BroadcastCall(r, "status", t)

\* The pending send_text returns: the message is with the socket; the loop
\* takes the next element of the live list or ends, and the handler returns.
SendOk(r) ==
    /\ req[r].pc = "sending"
    /\ sent' = [sent EXCEPT ![req[r].cur] = Append(@, r)]
    /\ IF HasNext(active, req[r].ticket, req[r].i)
       THEN req' = [req EXCEPT ![r].i = @ + 1,
                               ![r].cur = Room(active, req[r].ticket)[req[r].i + 1]]
       ELSE req' = [req EXCEPT ![r] = Answered(@, "returned")]
    /\ UNCHANGED <<active, wsState, hpc, hticket, htoken>>

\* The pending send_text raises (ws is any WebSocket: a closed or broken
\* connection makes send_text raise): nothing catches it in broadcast or in
\* the handler, the request ends with the error (HTTP 500).
SendFail(r) ==
    /\ req[r].pc = "sending"
    /\ req' = [req EXCEPT ![r] = Answered(@, "failed")]
    /\ UNCHANGED <<active, wsState, hpc, hticket, htoken, sent>>

\* ------------------------------------------------------------------ operations
\* ticket_operations, as functions of the tables d. A ticket row keeps title,
\* status and created_by; a reply row ticket_id and replied_by (description,
\* message and the timestamps are carried along by the code, nothing reads
\* them). No operation deletes a row.

\* A create_ticket whose status column defaults to in_review.
create_ticket_in_review(d, title, created_by) ==
    [d EXCEPT !.tickets =
        Append(@, [title |-> title, status |-> "in_review", created_by |-> created_by])]

\* create_ticket: the new row gets the next id and the column default "open".
create_ticket(d, title, created_by) ==
    [d EXCEPT !.tickets =
        Append(@, [title |-> title, status |-> "open", created_by |-> created_by])]

\* get_ticket: the ticket of that id (as a list of one id), or None (<<>>).
get_ticket(d, ticket_id) ==
    IF ticket_id \in DOMAIN d.tickets THEN <<ticket_id>> ELSE <<>>

\* get_ticket_with_replies: the same ticket with its replies, or None.
get_ticket_with_replies(d, ticket_id) == get_ticket(d, ticket_id)

\* An add_reply without the lookup of the ticket.
add_reply_unchecked(d, ticket_id, replied_by) ==
    [db |-> [d EXCEPT !.replies =
                Append(@, [ticket_id |-> ticket_id, replied_by |-> replied_by])],
     result |-> "Reply"]

\* add_reply: the tables after the call and what it returns.
add_reply(d, ticket_id, replied_by) ==
    IF ticket_id \notin DOMAIN d.tickets
    THEN [db |-> d, result |-> "None"]
    ELSE [db |-> [d EXCEPT !.replies =
                     Append(@, [ticket_id |-> ticket_id, replied_by |-> replied_by])],
          result |-> "Reply"]

\* A change_ticket_status that refuses to reopen a closed ticket.
change_ticket_status_forward(d, ticket_id, ticket_status) ==
    IF d.tickets[ticket_id].status = "close" THEN d
    ELSE [d EXCEPT !.tickets[ticket_id].status = ticket_status]

\* change_ticket_status on a loaded ticket: ticket.status = ticket_status.
change_ticket_status(d, ticket_id, ticket_status) ==
    [d EXCEPT !.tickets[ticket_id].status = ticket_status]

\* The operations called directly on a session, as the tests call them.
CallCreateTicket(title, by) ==
    /\ Len(db.tickets) < MaxTickets
    /\ db' = create_ticket(db, title, by)
    /\ ret' = Returned("create_ticket", Len(db'.tickets), "Ticket")
    /\ UNCHANGED <<jobs, http, su, li, regVars, req>>

CallAddReply(t, by) ==
    /\ Len(db.replies) < MaxReplies
    /\ db' = add_reply(db, t, by).db
    /\ ret' = Returned("add_reply", t, add_reply(db, t, by).result)
    /\ UNCHANGED <<jobs, http, su, li, regVars, req>>

CallChangeStatus(t, s) ==
    /\ get_ticket(db, t) # <<>>
    /\ db' = change_ticket_status(db, t, s)
    /\ ret' = Returned("change_ticket_status", t, "Ticket")
    /\ UNCHANGED <<jobs, http, su, li, regVars, req>>

\* ------------------------------------------------------------------ handlers
\* The handlers of routers/ticket_router.py. Each request r is served once.
\* A handler runs from the arrival of the request, through its dependencies
\* and its database calls, to its answer or to the first send_text of its
\* broadcast; no row is ever deleted or a role changed, so what another task
\* commits between two of its database calls makes no difference to it.

\* The answer of a handler: status code and how far into the ticket tables.
Answer(code, store) == [IdleHttp EXCEPT !.code = code, !.store = store]

\* Request r is next to arrive.
Arrives(r) ==
    /\ req[r].pc = "idle"
    /\ IF r = 1 THEN TRUE ELSE req[r - 1].pc # "idle"

\* The handler of request r answers without a call of manager.broadcast.
NoBroadcast(r, kind) ==
    /\ req' = [req EXCEPT ![r] = [IdleReq EXCEPT !.pc = "skipped", !.kind = kind]]
    /\ UNCHANGED regVars

\* ticket.creator.email if ticket.creator else None
CreatorEmail(d, t) ==
    IF d.tickets[t].created_by \in DOMAIN d.users
    THEN d.users[d.tickets[t].created_by].email
    ELSE "None"

\* The two .delay() calls that end add_reply: the e-mail to the creator, if
\* the ticket has one, then the log entry.
Dispatch(js, r, t, creator, agent) ==
    LET mailed == IF creator # "None"
                  THEN Append(js, [task |-> "send_email_notification", ticket |-> t,
                                   arg |-> creator, r |-> r])
                  ELSE js
    IN Append(mailed, [task |-> "log_reply", ticket |-> t, arg |-> agent, r |-> r])

\* POST /tickets/ (the limit of 5 requests a minute is never reached here).
HttpCreateTicket(r, tok, title) ==
    /\ Arrives(r)
    /\ NoBroadcast(r, "create")
    /\ LET u == get_current_user(tok) IN
       IF tok = NoToken
       THEN http' = [http EXCEPT ![r] = Answer("401", "none")] /\ UNCHANGED db
       ELSE IF require_user(u) = "AttributeError"
       THEN http' = [http EXCEPT ![r] = Answer("500", "none")] /\ UNCHANGED db
       ELSE IF require_user(u) = "403"
       THEN http' = [http EXCEPT ![r] = Answer("403", "none")] /\ UNCHANGED db
       ELSE /\ Len(db.tickets) < MaxTickets
            /\ db' = create_ticket(db, title, UserId(u))
            /\ http' = [http EXCEPT ![r] = Answer("200", "write")]
    /\ UNCHANGED <<jobs, ret, su, li>>

\* A GET /tickets/{t} that hides a ticket from a user who does not own it.
HttpGetTicketDetailHides(r, tok, t) ==
    /\ Arrives(r)
    /\ NoBroadcast(r, "detail")
    /\ LET u == get_current_user(tok) IN
       IF tok = NoToken
       THEN http' = [http EXCEPT ![r] = Answer("401", "none")]
       ELSE IF get_ticket_with_replies(db, t) = <<>>
       THEN http' = [http EXCEPT ![r] = Answer("404", "read")]
       ELSE IF u = NoUser
       THEN http' = [http EXCEPT ![r] = Answer("500", "read")]
       ELSE IF Role(u) = "user" /\ db.tickets[t].created_by # UserId(u)
       THEN http' = [http EXCEPT ![r] = Answer("404", "read")]
       ELSE http' = [http EXCEPT ![r] = Answer("200", "read")]
    /\ UNCHANGED <<db, jobs, ret, su, li>>

\* GET /tickets/{t}: the ticket is read before current_user is looked at.
HttpGetTicketDetail(r, tok, t) ==
    /\ Arrives(r)
    /\ NoBroadcast(r, "detail")
    /\ LET u == get_current_user(tok) IN
       IF tok = NoToken
       THEN http' = [http EXCEPT ![r] = Answer("401", "none")]
       ELSE IF get_ticket_with_replies(db, t) = <<>>
       THEN http' = [http EXCEPT ![r] = Answer("404", "read")]
       ELSE IF u = NoUser
       THEN http' = [http EXCEPT ![r] = Answer("500", "read")]
       ELSE IF Role(u) = "user" /\ db.tickets[t].created_by # UserId(u)
       THEN http' = [http EXCEPT ![r] = Answer("403", "read")]
       ELSE http' = [http EXCEPT ![r] = Answer("200", "read")]
    /\ UNCHANGED <<db, jobs, ret, su, li>>

\* POST /tickets/{t}/reply, up to its answer or to the first send_text.
HttpAddReply(r, tok, t) ==
    /\ Arrives(r)
    /\ LET u == get_current_user(tok) IN
       IF tok = NoToken
       THEN /\ http' = [http EXCEPT ![r] = Answer("401", "none")]
            /\ NoBroadcast(r, "reply") /\ UNCHANGED <<db, jobs>>
       ELSE IF require_agent(u) = "AttributeError"
       THEN /\ http' = [http EXCEPT ![r] = Answer("500", "none")]
            /\ NoBroadcast(r, "reply") /\ UNCHANGED <<db, jobs>>
       ELSE IF require_agent(u) = "403"
       THEN /\ http' = [http EXCEPT ![r] = Answer("403", "none")]
            /\ NoBroadcast(r, "reply") /\ UNCHANGED <<db, jobs>>
       ELSE IF get_ticket(db, t) = <<>>
       THEN /\ http' = [http EXCEPT ![r] = Answer("404", "read")]
            /\ NoBroadcast(r, "reply") /\ UNCHANGED <<db, jobs>>
       ELSE IF add_reply(db, t, UserId(u)).result = "None"
       THEN /\ http' = [http EXCEPT ![r] = Answer("404", "read")]
            /\ NoBroadcast(r, "reply") /\ UNCHANGED <<db, jobs>>
       ELSE /\ Len(db.replies) < MaxReplies
            /\ db' = add_reply(db, t, UserId(u)).db
            /\ BroadcastCall(r, "reply", t)
            /\ IF req'[r].pc = "returned"
               THEN /\ jobs' = Dispatch(jobs, r, t, CreatorEmail(db, t), u)
                    /\ http' = [http EXCEPT ![r] = Answer("200", "write")]
               ELSE /\ jobs' = jobs
                    /\ http' = [http EXCEPT ![r] =
                          [user |-> u, creator |-> CreatorEmail(db, t),
                           code |-> "none", store |-> "write"]]
    /\ UNCHANGED <<ret, su, li>>

\* PATCH /tickets/{t}/status, up to its answer or to the first send_text.
HttpUpdateStatus(r, tok, t, s) ==
    /\ Arrives(r)
    /\ LET u == get_current_user(tok) IN
       IF tok = NoToken
       THEN /\ http' = [http EXCEPT ![r] = Answer("401", "none")]
            /\ NoBroadcast(r, "status") /\ UNCHANGED db
       ELSE IF require_agent(u) = "AttributeError"
       THEN /\ http' = [http EXCEPT ![r] = Answer("500", "none")]
            /\ NoBroadcast(r, "status") /\ UNCHANGED db
       ELSE IF require_agent(u) = "403"
       THEN /\ http' = [http EXCEPT ![r] = Answer("403", "none")]
            /\ NoBroadcast(r, "status") /\ UNCHANGED db
       ELSE IF get_ticket(db, t) = <<>>
       THEN /\ http' = [http EXCEPT ![r] = Answer("404", "read")]
            /\ NoBroadcast(r, "status") /\ UNCHANGED db
       ELSE /\ db' = change_ticket_status(db, t, s)
            /\ BroadcastCall(r, "status", t)
            /\ IF req'[r].pc = "returned"
               THEN http' = [http EXCEPT ![r] = Answer("200", "write")]
               ELSE http' = [http EXCEPT ![r] =
                        [user |-> u, creator |-> "none", code |-> "none", store |-> "write"]]
    /\ UNCHANGED <<jobs, ret, su, li>>

\* The pending send_text of request r returns; when it was the last one the
\* broadcast returns to the handler, which dispatches its jobs and answers.
HttpSendOk(r) ==
    /\ SendOk(r)
    /\ IF req'[r].pc = "returned"
       THEN /\ jobs' = IF req[r].kind = "reply"
                       THEN Dispatch(jobs, r, req[r].ticket, http[r].creator, http[r].user)
                       ELSE jobs
            /\ http' = [http EXCEPT ![r] = Answer("200", "write")]
       ELSE UNCHANGED <<jobs, http>>
    /\ UNCHANGED <<db, ret, su, li>>

\* The pending send_text of request r raises: the handler ends with it.
HttpSendFail(r) ==
    /\ SendFail(r)
    /\ http' = [http EXCEPT ![r] = Answer("500", "write")]
    /\ UNCHANGED <<db, jobs, ret, su, li>>

\* ------------------------------------------------------------------ signup
\* The e-mail addresses of the signup requests: a new one and a taken one.
SignupEmails == {"new@x.com", "agent@x.com"}

\* get_user_by_email: the user of that e-mail (a list of one id), or None.
get_user_by_email(d, email) ==
    IF \E k \in DOMAIN d.users : d.users[k].email = email
    THEN <<CHOOSE k \in DOMAIN d.users : d.users[k].email = email>>
    ELSE <<>>

\* create_user: the commit inserts the row; the unique index on users.email
\* makes it raise IntegrityError when a row has that e-mail.
create_user(d, email, hashed_password, role) ==
    IF get_user_by_email(d, email) # <<>>
    THEN [db |-> d, result |-> "IntegrityError"]
    ELSE [db |-> [d EXCEPT !.users =
                     Append(@, [email |-> email, role |-> role,
                                hashed_password |-> hashed_password])],
          result |-> "User"]

\* POST /auth/signup up to the end of "await get_user_by_email": 400 when
\* the e-mail is taken, else on to create_user.
SignupCheck(n, email, password, role) ==
    /\ su[n].pc = "idle"
    /\ IF n = 1 THEN TRUE ELSE su[n - 1].pc # "idle"
    /\ IF get_user_by_email(db, email) # <<>>
       THEN su' = [su EXCEPT ![n] = [pc |-> "done", email |-> email, password |-> password,
                                      role |-> role, code |-> "400"]]
       ELSE su' = [su EXCEPT ![n] = [pc |-> "creating", email |-> email,
                                      password |-> password, role |-> role, code |-> "none"]]
    /\ UNCHANGED <<db, jobs, http, ret, li, regVars, req>>

\* create_user commits: the user is returned (200), or the IntegrityError
\* of the commit, which nothing catches, ends the request (500).
SignupCommit(n) ==
    /\ su[n].pc = "creating"
    /\ db' = create_user(db, su[n].email, hash_password(su[n].password), su[n].role).db
    /\ su' = [su EXCEPT ![n].pc = "done",
                        ![n].code = IF create_user(db, su[n].email,
                                                   hash_password(su[n].password),
                                                   su[n].role).result = "User"
                                    THEN "200" ELSE "500"]
    /\ UNCHANGED <<jobs, http, ret, li, regVars, req>>

\* ------------------------------------------------------------------ login
\* authenticate_user: the user of that e-mail when the password verifies
\* against its hash (a list of one id), else None.
authenticate_user(d, email, password) ==
    IF get_user_by_email(d, email) = <<>> THEN <<>>
    ELSE IF ~verify_password(password, d.users[get_user_by_email(d, email)[1]].hashed_password)
    THEN <<>>
    ELSE get_user_by_email(d, email)

\* create_access_token(data): the claims signed into the token, data with
\* the expiry added.
create_access_token(data) == [sub |-> data.sub, exp |-> "utcnow + 60 min"]

\* POST /auth/login up to the end of "await authenticate_user": the token,
\* or on to the second lookup that tells the two failures apart.
LoginAuth(n, email, password) ==
    /\ li[n].pc = "idle"
    /\ IF n = 1 THEN TRUE ELSE li[n - 1].pc # "idle"
    /\ IF authenticate_user(db, email, password) # <<>>
       THEN li' = [li EXCEPT ![n] =
                [pc |-> "done", email |-> email, password |-> password, code |-> "200",
                 token |-> create_access_token(
                     [sub |-> db.users[authenticate_user(db, email, password)[1]].email])]]
       ELSE li' = [li EXCEPT ![n] =
                [pc |-> "lookup", email |-> email, password |-> password, code |-> "none",
                 token |-> NoAccessToken]]
    /\ UNCHANGED <<db, jobs, http, ret, su, regVars, req>>

\* "await get_user_by_email" of the failure branch returns: 404 or 401.
LoginLookup(n) ==
    /\ li[n].pc = "lookup"
    /\ li' = [li EXCEPT ![n].pc = "done",
                        ![n].code = IF get_user_by_email(db, li[n].email) = <<>>
                                    THEN "404" ELSE "401"]
    /\ UNCHANGED <<db, jobs, http, ret, su, regVars, req>>

\* The endpoint and the direct callers of connect / disconnect, with the
\* latest call of the manager recorded in the history variable.
NextRegistry ==
    \/ \E w \in EndpointChannels, t \in TicketIds, tok \in Tokens :
          WsStart(w, t, tok) /\ UNCHANGED <<last, wfVars>>
    \/ \E w \in EndpointChannels :
          WsAcceptOk(w) /\ last' = Called("connect", hticket[w], w) /\ UNCHANGED wfVars
    \/ \E w \in EndpointChannels :
          WsAcceptFail(w, "WebSocketDisconnect") /\ last' = Called("disconnect", hticket[w], w) /\ UNCHANGED wfVars
    \/ \E w \in EndpointChannels :
          WsAcceptFail(w, "Error") /\ UNCHANGED <<last, wfVars>>
    \/ \E w \in EndpointChannels :
          WsReceiveText(w) /\ UNCHANGED <<last, wfVars>>
    \/ \E w \in EndpointChannels :
          WsReceiveDisconnect(w) /\ last' = Called("disconnect", hticket[w], w) /\ UNCHANGED wfVars
    \/ \E w \in EndpointChannels :
          WsReceiveError(w) /\ UNCHANGED <<last, wfVars>>
    \/ \E d \in DirectChannels, t \in TicketIds :
          ApiConnect(d, t) /\ last' = Called("connect", t, d) /\ UNCHANGED wfVars
    \/ \E d \in DirectChannels, t \in TicketIds :
          ApiDisconnect(d, t) /\ last' = Called("disconnect", t, d) /\ UNCHANGED wfVars

\* The reply / status requests, with sockets that come and go meanwhile
\* (no history of the manager's calls is recorded here).
NextBroadcast ==
    \/ \E d \in DirectChannels, t \in TicketIds : ApiConnect(d, t) /\ UNCHANGED <<last, wfVars>>
    \/ \E d \in DirectChannels, t \in TicketIds : ApiDisconnect(d, t) /\ UNCHANGED <<last, wfVars>>
    \/ \E r \in Requests, t \in TicketIds : AddReply(r, t) /\ UNCHANGED <<last, wfVars>>
    \/ \E r \in Requests, t \in TicketIds : UpdateStatus(r, t) /\ UNCHANGED <<last, wfVars>>
    \/ \E r \in Requests : SendOk(r) /\ UNCHANGED <<last, wfVars>>
    \/ \E r \in Requests : SendFail(r) /\ UNCHANGED <<last, wfVars>>

\* The whole program: every handler against every other. Its state space is
\* the product of the parts below and is not enumerated; each property is
\* checked under the part that holds the actions it depends on (the requests
\* never write the registry, the endpoint never writes a request).
Next == NextRegistry \/ NextBroadcast

Spec == Init /\ [][Next]_vars

\* The registry under the endpoint and direct calls, no broadcast in flight.
SpecRegistry == Init /\ [][NextRegistry]_vars

\* The broadcasts of the requests against direct connect / disconnect calls.
SpecBroadcast == Init /\ [][NextBroadcast]_vars

\* One request's broadcast against direct connect / disconnect calls, the
\* latest of which is recorded.
NextLeave ==
    \/ \E d \in DirectChannels, t \in TicketIds :
          ApiConnect(d, t) /\ last' = Called("connect", t, d) /\ UNCHANGED wfVars
    \/ \E d \in DirectChannels, t \in TicketIds :
          ApiDisconnect(d, t) /\ last' = Called("disconnect", t, d) /\ UNCHANGED wfVars
    \/ \E t \in TicketIds : AddReply(1, t) /\ UNCHANGED <<last, wfVars>>
    \/ \E t \in TicketIds : UpdateStatus(1, t) /\ UNCHANGED <<last, wfVars>>
    \/ SendOk(1) /\ UNCHANGED <<last, wfVars>>
    \/ SendFail(1) /\ UNCHANGED <<last, wfVars>>

SpecLeave == Init /\ [][NextLeave]_vars

\* The manager called from one task, as the tests call it: connect and
\* disconnect calls and the broadcast of one request, one after the other (the
\* broadcast runs to its end, return or exception, before the next call);
\* rooms of up to MaxOccur entries.
NoBroadcastRuns == \A r \in Requests : req[r].pc # "sending"

NextRoom ==
    \/ \E d \in DirectChannels, t \in TicketIds :
          /\ NoBroadcastRuns
          /\ ConnectWithin(d, t, MaxOccur)
          /\ last' = Called("connect", t, d) /\ UNCHANGED wfVars
    \/ \E d \in DirectChannels, t \in TicketIds :
          /\ NoBroadcastRuns
          /\ ApiDisconnect(d, t)
          /\ last' = Called("disconnect", t, d) /\ UNCHANGED wfVars
    \/ \E t \in TicketIds : AddReply(1, t) /\ UNCHANGED <<last, wfVars>>
    \/ \E t \in TicketIds : UpdateStatus(1, t) /\ UNCHANGED <<last, wfVars>>
    \/ SendOk(1) /\ UNCHANGED <<last, wfVars>>
    \/ SendFail(1) /\ UNCHANGED <<last, wfVars>>

SpecRoom == Init /\ [][NextRoom]_vars

\* The ticket operations called directly, one after the other.
NextStore ==
    \/ \E title \in Titles, by \in Authors :
          CallCreateTicket(title, by) /\ UNCHANGED last
    \/ \E t \in TicketIds, by \in Authors :
          CallAddReply(t, by) /\ UNCHANGED last
    \/ \E t \in TicketIds, s \in TicketStatus :
          CallChangeStatus(t, s) /\ UNCHANGED last

SpecStore == Init /\ [][NextStore]_vars

\* The callers of add_reply: direct calls and reply requests, on tickets
\* created directly, all with one title (no socket is registered).
NextReply ==
    \/ \E title \in {"a"}, by \in Authors :
          CallCreateTicket(title, by) /\ UNCHANGED last
    \/ \E t \in TicketIds, by \in Authors :
          CallAddReply(t, by) /\ UNCHANGED last
    \/ \E r \in Requests, tok \in BearerTokens, t \in TicketIds :
          HttpAddReply(r, tok, t) /\ UNCHANGED last

SpecReply == Init /\ [][NextReply]_vars

\* The callers of create_ticket: direct calls and POST /tickets/, on tables
\* whose tickets are closed and reopened meanwhile.
NextCreate ==
    \/ \E title \in Titles, by \in Authors :
          CallCreateTicket(title, by) /\ UNCHANGED last
    \/ \E t \in TicketIds, s \in {"open", "close"} :
          CallChangeStatus(t, s) /\ UNCHANGED last
    \/ \E r \in Requests, tok \in BearerTokens, title \in Titles :
          HttpCreateTicket(r, tok, title) /\ UNCHANGED last

SpecCreate == Init /\ [][NextCreate]_vars

\* The HTTP handlers on tickets that were created directly or through the
\* API (all with one title), with no socket registered (every broadcast
\* returns at once).
NextGate ==
    \/ \E title \in {"a"}, by \in Authors :
          CallCreateTicket(title, by) /\ UNCHANGED last
    \/ \E r \in Requests, tok \in BearerTokens, title \in {"a"} :
          HttpCreateTicket(r, tok, title) /\ UNCHANGED last
    \/ \E r \in Requests, tok \in BearerTokens, t \in TicketIds :
          HttpGetTicketDetail(r, tok, t) /\ UNCHANGED last
    \/ \E r \in Requests, tok \in BearerTokens, t \in TicketIds :
          HttpAddReply(r, tok, t) /\ UNCHANGED last
    \/ \E r \in Requests, tok \in BearerTokens, t \in TicketIds, s \in TicketStatus :
          HttpUpdateStatus(r, tok, t, s) /\ UNCHANGED last

SpecGate == Init /\ [][NextGate]_vars

\* The reply and status requests with sockets in the rooms: tickets are
\* created directly, sockets are connected directly, every send may fail.
NextNotify ==
    \/ \E by \in Authors : CallCreateTicket("a", by) /\ UNCHANGED last
    \/ \E d \in DirectChannels, t \in TicketIds : ApiConnect(d, t) /\ UNCHANGED <<last, wfVars>>
    \/ \E r \in Requests, tok \in BearerTokens, t \in TicketIds :
          HttpAddReply(r, tok, t) /\ UNCHANGED last
    \/ \E r \in Requests, tok \in BearerTokens, t \in TicketIds, s \in TicketStatus :
          HttpUpdateStatus(r, tok, t, s) /\ UNCHANGED last
    \/ \E r \in Requests : HttpSendOk(r) /\ UNCHANGED last
    \/ \E r \in Requests : HttpSendFail(r) /\ UNCHANGED last

SpecNotify == Init /\ [][NextNotify]_vars

\* The signup requests, each in its own task and session.
NextSignup ==
    \/ \E n \in Signups, email \in SignupEmails, password \in Passwords, role \in UserRole :
          SignupCheck(n, email, password, role) /\ UNCHANGED last
    \/ \E n \in Signups : SignupCommit(n) /\ UNCHANGED last

SpecSignup == Init /\ [][NextSignup]_vars

\* The login requests, with signup requests served meanwhile.
NextLogin ==
    \/ \E n \in Signups, email \in SignupEmails, password \in Passwords, role \in UserRole :
          SignupCheck(n, email, password, role) /\ UNCHANGED last
    \/ \E n \in Signups : SignupCommit(n) /\ UNCHANGED last
    \/ \E n \in Logins, email \in SignupEmails, password \in Passwords :
          LoginAuth(n, email, password) /\ UNCHANGED last
    \/ \E n \in Logins : LoginLookup(n) /\ UNCHANGED last

SpecLogin == Init /\ [][NextLogin]_vars

\* The endpoint with tokens of every user, on tickets created directly, and
\* the reply requests that broadcast to the registered sockets.
NextWatch ==
    \/ \E by \in Authors : CallCreateTicket("a", by) /\ UNCHANGED last
    \/ \E w \in EndpointChannels, t \in TicketIds, tok \in Tokens \cup BearerTokens :
          WsStart(w, t, tok) /\ UNCHANGED <<last, wfVars>>
    \/ \E w \in EndpointChannels : WsAcceptOk(w) /\ UNCHANGED <<last, wfVars>>
    \/ \E w \in EndpointChannels : WsReceiveDisconnect(w) /\ UNCHANGED <<last, wfVars>>
    \/ \E r \in Requests, tok \in BearerTokens, t \in TicketIds :
          HttpAddReply(r, tok, t) /\ UNCHANGED last
    \/ \E r \in Requests : HttpSendOk(r) /\ UNCHANGED last
    \/ \E r \in Requests : HttpSendFail(r) /\ UNCHANGED last

SpecWatch == Init /\ [][NextWatch]_vars

TypeOK ==
    /\ DOMAIN active \subseteq TicketIds
    /\ \A t \in DOMAIN active : Len(active[t]) <= MaxRoom /\ Range(active[t]) \subseteq Channels
    /\ \A c \in Channels : wsState[c] \in {"connecting", "accepted", "closed4401"}

\* ------------------------------------------------------------------ steps
\* The step is a call manager.connect(t, c) that registered c.
Joins(t, c) ==
    \/ c \in DirectChannels /\ ApiConnect(c, t)
    \/ c \in EndpointChannels /\ hticket[c] = t /\ WsAcceptOk(c)

\* The step is a call manager.disconnect(t, c).
Leaves(t, c) ==
    \/ c \in DirectChannels /\ ApiDisconnect(c, t)
    \/ /\ c \in EndpointChannels
       /\ hticket[c] = t
       /\ WsReceiveDisconnect(c) \/ WsAcceptFail(c, "WebSocketDisconnect")

\* The broadcast of request r takes a socket from the list and starts a send.
Picked(r) == req'[r].pc = "sending" /\ (req[r].pc # "sending" \/ req'[r].i # req[r].i)

\* The broadcast of request r ends, by returning or by an exception.
Ended(r) == req[r].pc = "sending" /\ req'[r].pc # "sending"

\* The pending send of request r ends and nothing was delivered: it failed.
SendFailed(r) ==
    /\ req[r].pc = "sending"
    /\ sent' = sent
    /\ req'[r].pc # "sending" \/ req'[r].i # req[r].i

\* ------------------------------------------------------------------ claims

\* C1: when a broadcast ends, every socket that was registered for its ticket
\* when it was called has been sent the message (the send was completed or, for
\* the socket of the last send, at least started); and a send is only ever
\* started to a socket registered for that ticket.
C1_BroadcastReachesRoom ==
    [][\A r \in Requests :
        /\ Ended(r) => \A c \in req[r].atCall \ {req[r].cur} : r \in Range(sent'[c])
        /\ Picked(r) => req'[r].cur \in Range(Room(active, req'[r].ticket))]_vars

\* C2: when a send fails while other sockets of the room have stayed
\* registered, the request does not fail, and when it returns every one of
\* those other sockets has the message.
C2_FailureSparesSiblings ==
    [][\A r \in Requests :
        (SendFailed(r) /\ req[r].stay \ {req[r].cur} # {}) =>
            /\ req'[r].pc \in {"sending", "returned"}
            /\ req'[r].pc = "returned" =>
                 \A c \in req[r].stay \ {req[r].cur} : r \in Range(sent'[c])]_vars

\* C3: a socket of the endpoint is accepted or registered (manager.connect has
\* run for it) only if its token resolves to an existing user.
C3_ConnectOnlyAuthenticated ==
    \A w \in EndpointChannels :
        (\/ wsState[w] = "accepted"
         \/ \E t \in TicketIds : w \in Range(Room(active, t)))
        => validate_websocket_token(htoken[w]) # NoUser

\* C4: once the handler task of a socket (here: one with a token that resolves)
\* has exited, on whichever path, the socket is in no room.
C4_ExitDisconnects ==
    \A w \in EndpointChannels :
        (hpc[w] \in {"closed", "crashed", "rejected"}
           /\ validate_websocket_token(htoken[w]) # NoUser) =>
            \A t \in TicketIds : w \notin Range(Room(active, t))

C6_ExactlyOnceUnderChurn ==
    [][\A r \in Requests :
        (Ended(r) /\ req'[r].pc = "returned") =>
            \A c \in req[r].stay :
                Count(Room(active, req[r].ticket), c) = 1 => Count(sent'[c], r) = 1]_vars

\* C7: request 1 calls broadcast before request 2 does; a socket that has
\* both messages got the message of request 1 first.
C7_CallOrderDelivery ==
    \A c \in Channels :
        \A j, k \in 1..Len(sent[c]) :
            (sent[c][j] = 1 /\ sent[c][k] = 2
               /\ (\A m \in 1..(j - 1) : sent[c][m] # 1)
               /\ (\A m \in 1..(k - 1) : sent[c][m] # 2)) => j < k

\* C8: when a send to c fails and the broadcast ends, it returns without the
\* error, c is no longer registered for the ticket, and every other socket is
\* registered as before.
C8_FailureDisconnectsOne ==
    [][\A r \in Requests :
        (SendFailed(r) /\ req'[r].pc # "sending") =>
            /\ req'[r].pc = "returned"
            /\ req[r].cur \notin Range(Room(active', req[r].ticket))
            /\ \A c \in Channels \ {req[r].cur} :
                 Count(Room(active', req[r].ticket), c) = Count(Room(active, req[r].ticket), c)]_vars

C10_RoomsIsolated ==
    [][\A A \in TicketIds, c \in Channels :
        (Joins(A, c) \/ Leaves(A, c)) =>
            \A B \in TicketIds \ {A} :
                /\ (B \in DOMAIN active') = (B \in DOMAIN active)
                /\ Room(active', B) = Room(active, B)]_vars

\* C10 witness: the latest call, connect(A, c), registered c under A while c
\* was registered under another ticket B, where it still is.
C10_Witness ==
    /\ last.op = "connect"
    /\ last.c \in Range(Room(active, last.t))
    /\ \E B \in TicketIds \ {last.t} : last.c \in Range(Room(active, B))

\* C11: no half-open socket is tracked: every socket that is in a room has
\* completed its accept handshake; a socket whose accept raised (its state is
\* still "connecting") is in no room.
C11_NoHalfOpenTracked ==
    \A c \in Channels :
        (\E t \in TicketIds : c \in Range(Room(active, t))) => wsState[c] = "accepted"

\* C11 witness: the accept of w1 raised and its handler is over, while
\* another socket, accepted, is registered.
C11_Witness ==
    /\ hpc["w1"] \in {"closed", "crashed"}
    /\ wsState["w1"] = "connecting"
    /\ \E t \in TicketIds : Room(active, t) # <<>>

\* C12: a connection attempt whose token parameter is absent (None) or empty
\* is closed with code 4401 in that very step, without a change of the
\* registry; from then on the socket stays closed with 4401, never accepted,
\* and is in no room.
C12_MissingTokenRejected ==
    [][\A w \in EndpointChannels :
        /\ \A t \in TicketIds, tok \in {NoToken, ""} :
              WsStart(w, t, tok) =>
                  /\ hpc'[w] = "rejected"
                  /\ wsState'[w] = "closed4401"
                  /\ active' = active
        /\ hpc[w] = "rejected" =>
              /\ hpc'[w] = "rejected"
              /\ wsState'[w] = "closed4401"
              /\ \A t \in TicketIds : w \notin Range(Room(active', t))]_vars

\* C12 witness: w1 came without a token and was rejected, and later another
\* socket was registered.
C12_Witness ==
    /\ hpc["w1"] = "rejected"
    /\ wsState["w1"] = "closed4401"
    /\ last.op = "connect"
    /\ \E t \in TicketIds : Room(active, t) # <<>>

\* The step leaves the ticket tables, the jobs and the sockets as they were,
\* and request r answers without a broadcast.
Untouched(r) ==
    /\ db' = db
    /\ jobs' = jobs
    /\ sent' = sent
    /\ req'[r].pc = "skipped"

\* C13: for a requester that is an existing user, POST /tickets/ writes and
\* answers 200 only when the role is user, the reply and status requests only
\* when the role is agent; with the other role the answer is 403, no table
\* changes, no job is dispatched and no broadcast is made.
C13_RoleGateExact ==
    [][\A r \in Requests, tok \in BearerTokens :
        (Arrives(r) /\ get_current_user(tok) # NoUser) =>
            /\ \A title \in Titles :
                  HttpCreateTicket(r, tok, title) =>
                      IF Role(get_current_user(tok)) = "user"
                      THEN http'[r].code = "200" /\ db' # db
                      ELSE http'[r].code = "403" /\ Untouched(r)
            /\ \A t \in TicketIds :
                  HttpAddReply(r, tok, t) =>
                      IF Role(get_current_user(tok)) = "agent"
                      THEN http'[r].code \in {"200", "404", "none"}
                      ELSE http'[r].code = "403" /\ Untouched(r)
            /\ \A t \in TicketIds, s \in TicketStatus :
                  HttpUpdateStatus(r, tok, t, s) =>
                      IF Role(get_current_user(tok)) = "agent"
                      THEN http'[r].code \in {"200", "404", "none"}
                      ELSE http'[r].code = "403" /\ Untouched(r)]_vars

\* C13 witness: with a ticket in the table, an agent's POST /tickets/ and a
\* user's reply or status request were both answered 403.
C13_Witness ==
    /\ Len(db.tickets) > 0
    /\ req[1].kind = "create" /\ http[1].code = "403"
    /\ req[2].kind \in {"reply", "status"} /\ http[2].code = "403"

\* C14: GET /tickets/{t} answers 404 only when ticket t does not exist; for an
\* existing ticket and a requester that is an existing user it answers 200
\* when the requester is an agent or the ticket's creator, and 403 otherwise.
C14_DetailOwnerOrAgent ==
    [][\A r \in Requests, tok \in BearerTokens, t \in TicketIds :
        (Arrives(r) /\ HttpGetTicketDetail(r, tok, t)) =>
            /\ http'[r].code = "404" => get_ticket(db, t) = <<>>
            /\ (get_current_user(tok) # NoUser /\ get_ticket(db, t) # <<>>) =>
                  IF \/ Role(get_current_user(tok)) = "agent"
                     \/ db.tickets[t].created_by = UserId(get_current_user(tok))
                  THEN http'[r].code = "200"
                  ELSE http'[r].code = "403"]_vars

\* C14 witness: two requests for the detail of existing tickets were answered,
\* one with 403 and one with 200.
C14_Witness ==
    /\ req[1].kind = "detail" /\ http[1].code = "403"
    /\ req[2].kind = "detail" /\ http[2].code = "200"

\* C15: a request with a token that does not resolve to a user is answered
\* 401, and no operation on the ticket tables has run for it.
C15_UnresolvedTokenRejected ==
    [][\A r \in Requests, tok \in BearerTokens \ {NoToken} :
        (Arrives(r) /\ get_current_user(tok) = NoUser) =>
            \A t \in TicketIds, title \in Titles, s \in TicketStatus :
                (\/ HttpCreateTicket(r, tok, title)
                 \/ HttpGetTicketDetail(r, tok, t)
                 \/ HttpAddReply(r, tok, t)
                 \/ HttpUpdateStatus(r, tok, t, s)) =>
                    /\ http'[r].code = "401"
                    /\ http'[r].store = "none"]_vars

\* C17: add_reply called with a ticket id that is not in the tickets table
\* returns None and leaves every table as it was; and after every step, by a
\* direct call or by a reply request, the ticket_id of every reply row is
\* the id of a row of the tickets table.
C17_NoOrphanReply ==
    [][/\ \A t \in TicketIds, by \in Authors :
            (CallAddReply(t, by) /\ get_ticket(db, t) = <<>>) =>
                ret'.result = "None" /\ db' = db
       /\ \A k \in DOMAIN db'.replies :
            get_ticket(db', db'.replies[k].ticket_id) # <<>>]_vars

\* C17 witness: the latest call, add_reply with an id that no ticket has,
\* returned None, while the tables hold a ticket and a reply to it.
C17_Witness ==
    /\ ret.op = "add_reply" /\ ret.result = "None"
    /\ get_ticket(db, ret.t) = <<>>
    /\ Len(db.tickets) > 0
    /\ Len(db.replies) > 0

\* C18: change_ticket_status(ticket, s) returns the ticket with status s
\* whatever its status was; title and creator of the ticket, the other
\* tickets, the replies and the users stay as they were; when s is the status
\* the ticket already has, nothing changes at all; and a second call with the
\* same s changes nothing.
C18_StatusOverwrite ==
    [][\A t \in TicketIds, s \in TicketStatus :
        CallChangeStatus(t, s) =>
            /\ ret'.result = "Ticket"
            /\ db'.tickets[t].status = s
            /\ db'.tickets[t].title = db.tickets[t].title
            /\ db'.tickets[t].created_by = db.tickets[t].created_by
            /\ Len(db'.tickets) = Len(db.tickets)
            /\ \A k \in DOMAIN db.tickets \ {t} : db'.tickets[k] = db.tickets[k]
            /\ db'.replies = db.replies
            /\ db'.users = db.users
            /\ s = db.tickets[t].status => db' = db
            /\ change_ticket_status(db', t, s) = db']_vars

\* C18 witness: the latest call set the status of a ticket to open (tickets
\* are created open: it was reopened, or open already), with another closed
\* ticket and a reply in the tables.
C18_Witness ==
    /\ ret.op = "change_ticket_status"
    /\ db.tickets[ret.t].status = "open"
    /\ \E k \in DOMAIN db.tickets : k # ret.t /\ db.tickets[k].status = "close"
    /\ Len(db.replies) > 0

\* The tables e are the tables d with one more ticket (title, open, owner) at
\* the next id, and nothing else changed.
NewTicket(d, e, title, owner) ==
    /\ e.tickets = Append(d.tickets, [title |-> title, status |-> "open", created_by |-> owner])
    /\ e.replies = d.replies
    /\ e.users = d.users

\* C19: create_ticket(title, owner) adds one ticket, with status open and
\* created_by = owner, whatever the tables hold; a ticket created by POST
\* /tickets/ has the requester of the token as created_by, and every such
\* request answered 200 has created one.
C19_CreateOpenOwned ==
    [][/\ \A title \in Titles, by \in Authors :
            CallCreateTicket(title, by) => NewTicket(db, db', title, by)
       /\ \A r \in Requests, tok \in BearerTokens, title \in Titles :
            (Arrives(r) /\ HttpCreateTicket(r, tok, title)
                       /\ (db' # db \/ http'[r].code = "200")) =>
                /\ get_current_user(tok) # NoUser
                /\ NewTicket(db, db', title, UserId(get_current_user(tok)))]_vars

\* C19 witness: a POST /tickets/ of the second user was answered 200 and made
\* ticket 2, while ticket 1, of another creator, is no longer open.
C19_Witness ==
    /\ \E r \in Requests : req[r].kind = "create" /\ http[r].code = "200"
    /\ Len(db.tickets) > 1
    /\ db.tickets[Len(db.tickets)].created_by = UserId("u2@x.com")
    /\ db.tickets[1].created_by # UserId("u2@x.com")
    /\ db.tickets[1].status # "open"

\* The jobs that request r dispatched, in order.
JobsOf(js, r) == SelectSeq(js, LAMBDA j : j.r = r)

\* Request r dispatched exactly one e-mail job, to the creator of ticket t,
\* and then exactly one log job, for ticket t.
Notified(js, d, r, t) ==
    /\ Len(JobsOf(js, r)) = 2
    /\ JobsOf(js, r)[1].task = "send_email_notification"
    /\ JobsOf(js, r)[1].arg = CreatorEmail(d, t)
    /\ JobsOf(js, r)[2].task = "log_reply"
    /\ JobsOf(js, r)[2].ticket = t

\* C16: a broadcast sends only to sockets of the room of its ticket; when the
\* handler of a reply request whose reply row was committed ends, one e-mail
\* job to the ticket's creator and one log job have been dispatched for it,
\* after the sends; a status request dispatches no job; a request that is
\* refused (not found, forbidden) makes no broadcast and dispatches no job.
C16_CommitNotifies ==
    [][\A r \in Requests :
        /\ Picked(r) => req'[r].cur \in Range(Room(active, req'[r].ticket))
        /\ (req[r].pc = "sending" /\ req'[r].pc # "sending") =>
              IF req[r].kind = "reply"
              THEN Notified(jobs', db', r, req[r].ticket)
              ELSE JobsOf(jobs', r) = <<>>
        /\ (req[r].pc = "idle" /\ req'[r].pc = "returned") =>
              IF req'[r].kind = "reply"
              THEN \E t \in TicketIds : Notified(jobs', db', r, t)
              ELSE JobsOf(jobs', r) = <<>>
        /\ (req[r].pc = "idle" /\ req'[r].pc = "sending") =>
              /\ http'[r].store = "write"
              /\ JobsOf(jobs', r) = <<>>
        /\ (req[r].pc = "idle" /\ req'[r].pc = "skipped") =>
              /\ http'[r].code \in {"401", "403", "404", "500"}
              /\ db' = db /\ jobs' = jobs /\ sent' = sent]_vars

\* C20: among the answered signup requests with one e-mail, every answer is
\* 200 or 400 and at most one is 200; once all of them are answered the
\* e-mail has a user; and no two rows of the users table have the same e-mail.
C20_OneSignupPerEmail ==
    /\ \A e \in SignupEmails :
         LET same == {n \in Signups : su[n].email = e}
             done == {n \in same : su[n].pc = "done"}
         IN /\ \A n \in done : su[n].code \in {"200", "400"}
            /\ Cardinality({n \in done : su[n].code = "200"}) <= 1
            /\ (same # {} /\ done = same) => get_user_by_email(db, e) # <<>>
    /\ \A j, k \in DOMAIN db.users : db.users[j].email = db.users[k].email => j = k

\* C21: when a login request is answered, the answer is 404 only if no user
\* has the given e-mail, 401 only if a user has it and the given password
\* does not verify against that user's hash, and otherwise 200 with a token
\* whose subject is the e-mail of that user.
C21_LoginTellsFailuresApart ==
    [][\A n \in Logins :
        (li[n].pc # "done" /\ li'[n].pc = "done") =>
            LET email == li'[n].email
                found == get_user_by_email(db, email)
                match == found # <<>> /\ verify_password(li'[n].password,
                                                         db.users[found[1]].hashed_password)
            IN /\ li'[n].code = "404" => found = <<>>
               /\ li'[n].code = "401" => (found # <<>> /\ ~match)
               /\ li'[n].code \notin {"404", "401"} =>
                     /\ li'[n].code = "200"
                     /\ match
                     /\ li'[n].token.sub = email]_vars

\* The user u (what get_current_user returned) may view ticket t: t exists
\* and u has the agent role or created t.
MayView(u, t) ==
    /\ get_ticket(db, t) # <<>>
    /\ Role(u) = "agent" \/ db.tickets[t].created_by = UserId(u)

\* C22: a socket of the endpoint whose token resolves to a user is in the
\* room of ticket t, or is being sent a broadcast of t, only if t exists and
\* that user is an agent or the creator of t.
C22_RegisteredMayView ==
    \A w \in EndpointChannels :
        get_current_user(htoken[w]) # NoUser =>
            /\ \A t \in TicketIds :
                  w \in Range(Room(active, t)) => MayView(get_current_user(htoken[w]), t)
            /\ \A r \in Requests :
                  (req[r].pc = "sending" /\ req[r].cur = w) =>
                      MayView(get_current_user(htoken[w]), req[r].ticket)

\* s without its entry at position k.
Without(s, k) == [m \in 1..(Len(s) - 1) |-> IF m < k THEN s[m] ELSE s[m + 1]]

====
